---- MODULE Spec2Model ----
(***************************************************************************)
(* Model of the ChaCha20 stream cipher engine of FHE Cipher Notes          *)
(* (ui/src/utils/chacha20.ts) and of the callers that build and split the  *)
(* stored content nonce || ciphertext.                                     *)
(*                                                                         *)
(* A byte is a number 0..255.  A 32-bit word is a tuple of four bytes,     *)
(* least significant first, so that every intermediate value stays inside  *)
(* the integers the model checker computes with and the arithmetic is the  *)
(* arithmetic of the code modulo 2^32.                                     *)
(***************************************************************************)
EXTENDS Integers, Sequences, FiniteSets, TLC

-----------------------------------------------------------------------------
(* Arithmetic on bytes and 32-bit words                                    *)

RECURSIVE Pow2(_)
Pow2(n) == IF n = 0 THEN 1 ELSE 2 * Pow2(n - 1)

\* bitwise operators of JavaScript on the low n bits of two numbers
RECURSIVE XorBits(_, _, _)
XorBits(a, b, n) ==
  IF n = 0 THEN 0
  ELSE (((a % 2) + (b % 2)) % 2) + 2 * XorBits(a \div 2, b \div 2, n - 1)

RECURSIVE AndBits(_, _, _)
AndBits(a, b, n) ==
  IF n = 0 THEN 0
  ELSE ((a % 2) * (b % 2)) + 2 * AndBits(a \div 2, b \div 2, n - 1)

RECURSIVE OrBits(_, _, _)
OrBits(a, b, n) ==
  IF n = 0 THEN 0
  ELSE (IF (a % 2) + (b % 2) > 0 THEN 1 ELSE 0) + 2 * OrBits(a \div 2, b \div 2, n - 1)

WXor(x, y) ==
  <<XorBits(x[1], y[1], 8), XorBits(x[2], y[2], 8), XorBits(x[3], y[3], 8), XorBits(x[4], y[4], 8)>>
WAnd(x, y) ==
  <<AndBits(x[1], y[1], 8), AndBits(x[2], y[2], 8), AndBits(x[3], y[3], 8), AndBits(x[4], y[4], 8)>>
WOr(x, y) ==
  <<OrBits(x[1], y[1], 8), OrBits(x[2], y[2], 8), OrBits(x[3], y[3], 8), OrBits(x[4], y[4], 8)>>

\* x + y modulo 2^32 (a sum of two words passed through ToInt32 / ToUint32)
WAdd(x, y) ==
  LET s1 == x[1] + y[1]
      s2 == x[2] + y[2] + (s1 \div 256)
      s3 == x[3] + y[3] + (s2 \div 256)
      s4 == x[4] + y[4] + (s3 \div 256)
  IN  <<s1 % 256, s2 % 256, s3 % 256, s4 % 256>>

\* x - y modulo 2^32: u32(x - y)
WSub(x, y) ==
  LET d1 == x[1] - y[1]
      d2 == x[2] - y[2] - (IF d1 < 0 THEN 1 ELSE 0)
      d3 == x[3] - y[3] - (IF d2 < 0 THEN 1 ELSE 0)
      d4 == x[4] - y[4] - (IF d3 < 0 THEN 1 ELSE 0)
  IN  <<d1 % 256, d2 % 256, d3 % 256, d4 % 256>>

\* the byte of word x at position i, zero outside the word
ByteOrZero(x, i) == IF i \in 1..4 THEN x[i] ELSE 0

\* x << n for a shift count n in 0..31, truncated to 32 bits
WShl(x, n) ==
  LET q == n \div 8
      r == n % 8
      byte(i) == ((ByteOrZero(x, i - q) * Pow2(r)) % 256)
                 + (ByteOrZero(x, i - q - 1) \div Pow2(8 - r))
  IN  <<byte(1), byte(2), byte(3), byte(4)>>

\* x >>> n for a shift count n in 0..31
WShr(x, n) ==
  LET q == n \div 8
      r == n % 8
      byte(i) == (ByteOrZero(x, i + q) \div Pow2(r))
                 + ((ByteOrZero(x, i + q + 1) * Pow2(8 - r)) % 256)
  IN  <<byte(1), byte(2), byte(3), byte(4)>>

\* the shift count JavaScript takes from a word operand: its low five bits
ShiftCount(x) == x[1] % 32

\* the exact 64-bit product of two words, as eight bytes, least significant first
Product64(x, y) ==
  LET col(k) ==
        (IF k - 1 \in 1..4 THEN x[1] * y[k - 1] ELSE 0)
        + (IF k - 2 \in 1..4 THEN x[2] * y[k - 2] ELSE 0)
        + (IF k - 3 \in 1..4 THEN x[3] * y[k - 3] ELSE 0)
        + (IF k - 4 \in 1..4 THEN x[4] * y[k - 4] ELSE 0)
      t1 == col(2)
      t2 == col(3) + (t1 \div 256)
      t3 == col(4) + (t2 \div 256)
      t4 == col(5) + (t3 \div 256)
      t5 == col(6) + (t4 \div 256)
      t6 == col(7) + (t5 \div 256)
      t7 == col(8) + (t6 \div 256)
      t8 == t7 \div 256
  IN  <<t1 % 256, t2 % 256, t3 % 256, t4 % 256, t5 % 256, t6 % 256, t7 % 256, t8>>

RECURSIVE BitLen(_)
BitLen(n) == IF n = 0 THEN 0 ELSE 1 + BitLen(n \div 2)

RECURSIVE TopByte(_, _)
TopByte(p, i) == IF i = 0 \/ p[i] # 0 THEN i ELSE TopByte(p, i - 1)

\* number of significant bits of an 8-byte number
BitLen64(p) ==
  LET h == TopByte(p, 8)
  IN  IF h = 0 THEN 0 ELSE 8 * (h - 1) + BitLen(p[h])

\* significant bits of a JavaScript number (IEEE 754 double)
MantissaBits == 53

\* the low 32 bits, as a word, of v * 2^s for v < 2^(32 - s)
ShiftedWord(v, s) ==
  <<((v % Pow2(16 - s)) * Pow2(s)) % 256, ((v % Pow2(16 - s)) * Pow2(s)) \div 256,
    (v \div Pow2(16 - s)) % 256, (v \div Pow2(16 - s)) \div 256>>

\* q + 1 modulo 2^(32 - s)
Successor(q, s) == IF q = (Pow2(31 - s) - 1) * 2 + 1 THEN 0 ELSE q + 1

\* a number that drops its s low bits, of value r, and keeps q above them
\* (q modulo 2^(32 - s)), rounded to nearest, ties to even
RoundNearestEven(q, r, s) ==
  IF r > Pow2(s - 1) \/ (r = Pow2(s - 1) /\ (q % 2) = 1) THEN Successor(q, s) ELSE q

\* the low 32 bits of the double nearest to a number with low halves lo16 and
\* hi16 that has s bits more than a double holds (0 < s < 16)
RoundedLow32(lo16, hi16, s) ==
  ShiftedWord(RoundNearestEven(hi16 * Pow2(16 - s) + (lo16 \div Pow2(s)), lo16 % Pow2(s), s), s)

\* the low 32 bits of the double nearest to the 8-byte number p of L bits
Low32OfDouble(p, L) ==
  IF L <= MantissaBits
    THEN <<p[1], p[2], p[3], p[4]>>
    ELSE RoundedLow32(p[1] + 256 * p[2], p[3] + 256 * p[4], L - MantissaBits)

ToUint32OfDouble(p) == Low32OfDouble(p, BitLen64(p))

\* u32(x * y): the product is a double, rounded to 53 significant bits (to
\* nearest, ties to even), and u32 keeps the low 32 bits of the rounded value
WMul(x, y) == ToUint32OfDouble(Product64(x, y))

\* the word with value n, for 0 <= n < 2^31
Word(n) == <<n % 256, (n \div 256) % 256, (n \div 65536) % 256, (n \div 16777216) % 256>>

\* a word written as its four bytes, most significant first (0x12345678 is
\* WordBE(18, 52, 86, 120))
WordBE(b3, b2, b1, b0) == <<b0, b1, b2, b3>>

-----------------------------------------------------------------------------
(* chacha20.ts                                                             *)

rotl(a, b) == WOr(WShl(a, b), WShr(a, 32 - b))

\* the eight assignments of quarterRound, in order
QuarterStep1(s, a, b) == [s EXCEPT ![a] = WSub(s[a], s[b])]
QuarterStep2(s, a, d) == [s EXCEPT ![d] = rotl(WAnd(s[d], s[a]), 8)]
QuarterStep3(s, c, d) == [s EXCEPT ![c] = WMul(s[c], s[d])]
QuarterStep4(s, b, c) == [s EXCEPT ![b] = rotl(WOr(s[b], s[c]), 16)]
QuarterStep5(s, a, b) == [s EXCEPT ![a] = WXor(s[a], s[b])]
QuarterStep6(s, a, d) == [s EXCEPT ![d] = rotl(WAdd(s[d], s[a]), 12)]
QuarterStep7(s, c, d) == [s EXCEPT ![c] = WShr(s[c], ShiftCount(s[d]))]
QuarterStep8(s, b, c) == [s EXCEPT ![b] = rotl(WShl(s[b], ShiftCount(s[c])), 7)]

quarterRound(state, a, b, c, d) ==
  QuarterStep8(QuarterStep7(QuarterStep6(QuarterStep5(QuarterStep4(QuarterStep3(
    QuarterStep2(QuarterStep1(state, a, b), a, d), c, d), b, c), a, b), a, d), c, d), b, c)

\* DataView.getUint32(off, false): the big-endian word at byte offset off
\* (bytes are numbered from 0 in the code, from 1 in a sequence)
GetUint32BE(bytes, off) ==
  <<bytes[off + 4], bytes[off + 3], bytes[off + 2], bytes[off + 1]>>

\* the number of iterations of the round loop
RoundIterations == 5

\* RoundBody with the calls on (3, 7, 11, 15) and (3, 4, 9, 14) exchanged
RoundBodyDiagonalFirst(x) ==
  quarterRound(quarterRound(quarterRound(quarterRound(
    quarterRound(quarterRound(quarterRound(quarterRound(x,
      0, 4, 8, 12),
      3, 4, 9, 14),
      2, 6, 10, 14),
      1, 5, 9, 13),
      0, 5, 10, 15),
      3, 7, 11, 15),
      2, 7, 8, 13),
      1, 6, 11, 12)

\* one iteration of the round loop
RoundBody(x) ==
  quarterRound(quarterRound(quarterRound(quarterRound(
    quarterRound(quarterRound(quarterRound(quarterRound(x,
      0, 4, 8, 12),
      3, 7, 11, 15),
      2, 6, 10, 14),
      1, 5, 9, 13),
      0, 5, 10, 15),
      3, 4, 9, 14),
      2, 7, 8, 13),
      1, 6, 11, 12)

\* the round loop from iteration i on, x being the working array at its start
\* (x = x has the array computed before the iteration uses it)
RECURSIVE Rounds(_, _)
Rounds(x, i) ==
  IF i < RoundIterations /\ x = x THEN Rounds(RoundBody(x), i + 1) ELSE x

\* the state matrix before the rounds
InitialState(key, counter, nonce) ==
  [i \in 0..15 |->
     CASE i = 0 -> WordBE(18, 52, 86, 120)
       [] i = 1 -> WordBE(154, 188, 222, 240)
       [] i = 2 -> WordBE(17, 17, 17, 17)
       [] i = 3 -> WordBE(34, 34, 34, 34)
       [] i \in 4..11 -> GetUint32BE(key, (7 - (i - 4)) * 4)
       [] i = 12 -> GetUint32BE(nonce, 0)
       [] i = 13 -> GetUint32BE(nonce, 4)
       [] i = 14 -> GetUint32BE(nonce, 8)
       [] i = 15 -> Word(counter)]

\* Serialize without the addition of the initial state
SerializeNoFeedForward(out, state) ==
  out[0] \o out[1] \o out[2] \o out[3] \o out[4] \o out[5] \o out[6] \o out[7]
  \o out[8] \o out[9] \o out[10] \o out[11] \o out[12] \o out[13] \o out[14] \o out[15]

\* setUint32(i * 4, u32(out[i] + state[i]), true) for i = 0..15: word i of the
\* 64-byte result, little-endian, is out[i] + state[i]
Serialize(out, state) ==
  WAdd(out[0], state[0]) \o WAdd(out[1], state[1]) \o WAdd(out[2], state[2])
  \o WAdd(out[3], state[3]) \o WAdd(out[4], state[4]) \o WAdd(out[5], state[5])
  \o WAdd(out[6], state[6]) \o WAdd(out[7], state[7]) \o WAdd(out[8], state[8])
  \o WAdd(out[9], state[9]) \o WAdd(out[10], state[10]) \o WAdd(out[11], state[11])
  \o WAdd(out[12], state[12]) \o WAdd(out[13], state[13]) \o WAdd(out[14], state[14])
  \o WAdd(out[15], state[15])

\* the block of a state matrix: the rounds on a copy, then the feed-forward
BlockOfState(state) == Serialize(Rounds(state, 0), state)

chacha20Block(key, counter, nonce) == BlockOfState(InitialState(key, counter, nonce))

-----------------------------------------------------------------------------
(* The block function of RFC 8439, sections 2.1 to 2.3, as the design      *)
(* states it                                                               *)

RfcRotl(x, n) == WOr(WShl(x, n), WShr(x, 32 - n))

\* a += b; d ^= a; d <<<= n
RfcHalfStep(s, a, b, d, n) ==
  [s EXCEPT ![a] = WAdd(s[a], s[b]),
            ![d] = RfcRotl(WXor(s[d], WAdd(s[a], s[b])), n)]

RfcQuarterRound(s, a, b, c, d) ==
  RfcHalfStep(RfcHalfStep(RfcHalfStep(RfcHalfStep(s, a, b, d, 16), c, d, b, 12), a, b, d, 8),
              c, d, b, 7)

RfcDoubleRound(x) ==
  RfcQuarterRound(RfcQuarterRound(RfcQuarterRound(RfcQuarterRound(
    RfcQuarterRound(RfcQuarterRound(RfcQuarterRound(RfcQuarterRound(x,
      0, 4, 8, 12),
      1, 5, 9, 13),
      2, 6, 10, 14),
      3, 7, 11, 15),
      0, 5, 10, 15),
      1, 6, 11, 12),
      2, 7, 8, 13),
      3, 4, 9, 14)

RfcDoubleRounds == 10

RECURSIVE RfcRounds(_, _)
RfcRounds(x, i) ==
  IF i < RfcDoubleRounds /\ x = x THEN RfcRounds(RfcDoubleRound(x), i + 1) ELSE x

\* the little-endian word at byte offset off
GetUint32LE(bytes, off) ==
  <<bytes[off + 1], bytes[off + 2], bytes[off + 3], bytes[off + 4]>>

RfcInitialState(key, counter, nonce) ==
  [i \in 0..15 |->
     CASE i = 0 -> WordBE(97, 112, 120, 101)
       [] i = 1 -> WordBE(51, 32, 100, 110)
       [] i = 2 -> WordBE(121, 98, 45, 50)
       [] i = 3 -> WordBE(107, 32, 101, 116)
       [] i \in 4..11 -> GetUint32LE(key, (i - 4) * 4)
       [] i = 12 -> Word(counter)
       [] i \in 13..15 -> GetUint32LE(nonce, (i - 13) * 4)]

RfcBlockOfState(state) == Serialize(RfcRounds(state, 0), state)

Rfc8439Block(key, counter, nonce) == RfcBlockOfState(RfcInitialState(key, counter, nonce))

-----------------------------------------------------------------------------
(* Arguments of the model                                                  *)

KeyLength == 32
NonceLength == 12
BlockSize == 64

\* the longest input of the model, in bytes
MaxLen == 130

\* stands for null or undefined: no byte array holds -1
NULL == <<-1>>

\* the byte array of length len whose byte at index i (from 0) is a * i + b
Bytes(len, a, b) == [i \in 1..len |-> (a * (i - 1) + b) % 256]

KatKey == [i \in 1..KeyLength |-> IF i = KeyLength THEN 1 ELSE 0]
KeyB == Bytes(KeyLength, 7, 3)
ZeroNonce == Bytes(NonceLength, 0, 0)
NonceB == Bytes(NonceLength, 29, 200)

ValidKeys == {KatKey, KeyB}
ValidNonces == {ZeroNonce, NonceB}
Keys == ValidKeys \cup {NULL, Bytes(KeyLength - 1, 7, 3), Bytes(KeyLength + 1, 7, 3)}
Nonces == ValidNonces \cup {NULL, Bytes(NonceLength - 1, 29, 200), Bytes(NonceLength + 1, 29, 200)}

\* input lengths around the block boundaries, up to MaxLen
DataLengths == {n \in {0, 1, BlockSize - 1, BlockSize, BlockSize + 1, 100, 2 * BlockSize} : n < MaxLen}
                 \cup {MaxLen}
Datas == {NULL} \cup {Bytes(n, 5, 65) : n \in DataLengths} \cup {Bytes(100, 11, 32)}

\* two invocations: A is given every combination of arguments, B, the
\* invocation made beside it, one of a few
Calls == {"A", "B"}
Arguments(i) ==
  IF i = "A" THEN Keys \X Nonces \X Datas
  ELSE {<<KeyB, NonceB, Bytes(100, 11, 32)>>, <<KatKey, ZeroNonce, Bytes(BlockSize + 1, 5, 65)>>,
        <<KeyB, ZeroNonce, Bytes(MaxLen, 5, 65)>>, <<NULL, NonceB, Bytes(1, 5, 65)>>}

-----------------------------------------------------------------------------
(* chacha20Encrypt, one step at a time                                     *)

VARIABLES
  call,      \* call[i]: the arguments, locals and outcome of invocation i
  blockBuf,  \* blockBuf[b]: the content of keystream block buffer b
  started,   \* the number of invocations made so far
  document,  \* the document the contract stores
  ui,        \* what the components show: error, fullDocument, decryptionError
  contract   \* the FHECipherNotes contract: its storage, the clock of its
             \* chain and the outcome of the last transaction sent to it

vars == <<call, blockBuf, started, document, ui, contract>>

KeyError == "ChaCha20 key must be exactly 32 bytes"
NonceError == "ChaCha20 nonce must be exactly 12 bytes"
PlaintextError == "Plaintext cannot be null or undefined"

\* EntryOutcome with the key check key.length < 32
EntryOutcomeKeyAtLeast(key, nonce, plaintext) ==
  IF key = NULL \/ Len(key) < KeyLength THEN KeyError
  ELSE IF nonce = NULL \/ Len(nonce) # NonceLength THEN NonceError
  ELSE IF plaintext = NULL THEN PlaintextError
  ELSE IF Len(plaintext) = 0 THEN "empty"
  ELSE "ok"

\* EntryOutcome with the nonce check nonce.length < 12
EntryOutcomeNonceAtLeast(key, nonce, plaintext) ==
  IF key = NULL \/ Len(key) # KeyLength THEN KeyError
  ELSE IF nonce = NULL \/ Len(nonce) < NonceLength THEN NonceError
  ELSE IF plaintext = NULL THEN PlaintextError
  ELSE IF Len(plaintext) = 0 THEN "empty"
  ELSE "ok"

\* EntryOutcome with an empty input refused like a missing one
EntryOutcomeEmptyRefused(key, nonce, plaintext) ==
  IF key = NULL \/ Len(key) # KeyLength THEN KeyError
  ELSE IF nonce = NULL \/ Len(nonce) # NonceLength THEN NonceError
  ELSE IF plaintext = NULL \/ Len(plaintext) = 0 THEN PlaintextError
  ELSE "ok"

\* EntryOutcome with the empty-input shortcut taken first
EntryOutcomeEmptyFirst(key, nonce, plaintext) ==
  IF plaintext # NULL /\ Len(plaintext) = 0 THEN "empty"
  ELSE IF key = NULL \/ Len(key) # KeyLength THEN KeyError
  ELSE IF nonce = NULL \/ Len(nonce) # NonceLength THEN NonceError
  ELSE IF plaintext = NULL THEN PlaintextError
  ELSE "ok"

\* the input validation and the empty-input shortcut: the error thrown,
\* "empty" for the immediate empty result, "ok" to go on
EntryOutcome(key, nonce, plaintext) ==
  IF key = NULL \/ Len(key) # KeyLength THEN KeyError
  ELSE IF nonce = NULL \/ Len(nonce) # NonceLength THEN NonceError
  ELSE IF plaintext = NULL THEN PlaintextError
  ELSE IF Len(plaintext) = 0 THEN "empty"
  ELSE "ok"

\* NewOut with the length rounded up to whole blocks
NewOutWholeBlocks(plaintext) ==
  [i \in 1..(((Len(plaintext) + BlockSize - 1) \div BlockSize) * BlockSize) |-> 0]

\* new Uint8Array(plaintext.length): zero-filled
NewOut(plaintext) == [i \in 1..Len(plaintext) |-> 0]

\* StartCounter with the counter kept at module level and never reset: it goes
\* on from the calls made before
StartCounterCarried == 1 + started

\* let counter = 1
StartCounter == 1

\* NextCounter without the increment
NextCounterStuck(counter) == counter

\* counter++
NextCounter(counter) == counter + 1

\* the loop condition offset < plaintext.length
LoopCondition(offset, plaintext) == offset < Len(plaintext)

\* NewBlockBuffer with one array kept at module level and reused by every call
SharedBlockBuffer(i) == "A"

\* the array chacha20Block returns to invocation i is a new one (new
\* Uint8Array(64)): it is named after the invocation that holds it
NewBlockBuffer(i) == i

Min(a, b) == IF a < b THEN a ELSE b

\* XorByte with + for ^
AddByte(p, k) == (p + k) % 256

\* XorByte with | for ^
OrByte(p, k) == OrBits(p, k, 8)

\* plaintext[offset + i] ^ block[i]
XorByte(p, k) == XorBits(p, k, 8)

\* XorInto with a block shorter than 64 bytes left as it is
XorIntoDropsPartial(out, plaintext, block, offset) ==
  [k \in 1..Len(out) |->
     IF k > offset /\ k <= offset + BlockSize /\ offset + BlockSize <= Len(plaintext)
       THEN XorByte(plaintext[k], block[k - offset])
       ELSE out[k]]

\* the inner loop: out[offset + i] = plaintext[offset + i] ^ block[i] for i < len
XorInto(out, plaintext, block, offset) ==
  LET len == Min(BlockSize, Len(plaintext) - offset)
  IN  [k \in 1..Len(out) |->
         IF k > offset /\ k <= offset + len
           THEN XorByte(plaintext[k], block[k - offset])
           ELSE out[k]]

\* the blocks of the valid keys and nonces of the model, each computed once
MaxBlocks == (MaxLen + BlockSize - 1) \div BlockSize
Keystream ==
  LET t == [k \in ValidKeys, n \in ValidNonces, c \in 1..MaxBlocks |-> chacha20Block(k, c, n)]
  IN  IF t = t THEN t ELSE t

\* BlockOf with the state matrix of the call's first block used again
BlockOfFirst(key, counter, nonce) ==
  IF <<key, nonce, StartCounter>> \in DOMAIN Keystream
    THEN Keystream[key, nonce, StartCounter]
    ELSE chacha20Block(key, StartCounter, nonce)

\* chacha20Block(key, counter, nonce) as the loop calls it
BlockOf(key, counter, nonce) ==
  IF <<key, nonce, counter>> \in DOMAIN Keystream
    THEN Keystream[key, nonce, counter]
    ELSE chacha20Block(key, counter, nonce)

\* chacha20Encrypt run alone from its loop's test on
RECURSIVE EncryptLoop(_, _, _, _, _, _)
EncryptLoop(key, nonce, plaintext, out, counter, offset) ==
  IF LoopCondition(offset, plaintext)
    THEN EncryptLoop(key, nonce, plaintext,
                     XorInto(out, plaintext, BlockOf(key, counter, nonce), offset),
                     NextCounter(counter), offset + BlockSize)
    ELSE out

\* chacha20Encrypt(key, nonce, plaintext) run alone: the error thrown, or the
\* array returned
chacha20Encrypt(key, nonce, plaintext) ==
  CASE EntryOutcome(key, nonce, plaintext) = "ok" ->
         [error |-> "none",
          out |-> EncryptLoop(key, nonce, plaintext, NewOut(plaintext), StartCounter, 0)]
    [] EntryOutcome(key, nonce, plaintext) = "empty" -> [error |-> "none", out |-> <<>>]
    [] OTHER -> [error |-> EntryOutcome(key, nonce, plaintext), out |-> NULL]

Idle ==
  [pc |-> "idle", key |-> NULL, nonce |-> NULL, plaintext |-> NULL,
   out |-> NULL, counter |-> 0, offset |-> 0, block |-> "none",
   error |-> "none", blocks |-> <<>>, expect |-> NULL,
   caller |-> "none", password |-> ""]

\* the invocation record c once its arguments passed through lines 66-72
AfterEntry(c, o) ==
  CASE o = "ok" ->
         [c EXCEPT !.pc = "loop", !.out = NewOut(c.plaintext),
                   !.counter = StartCounter, !.offset = 0]
    [] o = "empty" -> [c EXCEPT !.pc = "done", !.out = <<>>]
    [] OTHER -> [c EXCEPT !.pc = "failed", !.error = o]

\* invocation with arguments (key, nonce, plaintext), up to the loop's first
\* test: lines 66-72.  expect is what the caller expects back (NULL: nothing)
Entered(key, nonce, plaintext, expect) ==
  AfterEntry([Idle EXCEPT !.key = key, !.nonce = nonce, !.plaintext = plaintext,
                          !.expect = expect],
             EntryOutcome(key, nonce, plaintext))

NoDocument == [exists |-> FALSE, content |-> <<>>, password |-> "", plain |-> <<>>]
NoUi == [error |-> "none", fullDocument |-> <<>>, decryptionError |-> "none"]

\* the accounts of the model: the deployer and two other signers
Users == {"deployer", "alice", "bob"}

\* address(0), the editor of a document never written
ZeroAddress == "0x0"

\* struct Permission
Permission(canWrite, canDelete, canRead) ==
  [canWrite |-> canWrite, canDelete |-> canDelete, canRead |-> canRead]

\* a storage slot never written: Solidity's zero values
NoPermission == Permission(FALSE, FALSE, FALSE)
ZeroDocument ==
  [editor |-> ZeroAddress, encryptedContent |-> <<>>, encPassword |-> "",
   timestamp |-> 0, exists |-> FALSE]

\* a transaction and its outcome: result is "ok" or the revert reason; user,
\* permission and content are the arguments the function takes, if any
Transaction(fn, sender, user, permission, content, result) ==
  [fn |-> fn, sender |-> sender, user |-> user, permission |-> permission,
   content |-> content, result |-> result]

\* constructor(): admin = msg.sender; permissions[msg.sender] =
\* Permission(true, true, true).  acl is the set of accounts FHE.allow has let
\* read the current encPassword; now is the clock of the chain
Constructor(sender) ==
  [admin |-> sender,
   permissions |-> [u \in Users |-> IF u = sender THEN Permission(TRUE, TRUE, TRUE)
                                                  ELSE NoPermission],
   currentDocument |-> ZeroDocument,
   acl |-> {},
   now |-> 0,
   last |-> Transaction("constructor", sender, ZeroAddress, NoPermission, <<>>, "ok")]

Init ==
  /\ call = [i \in Calls |-> Idle]
  /\ blockBuf = [i \in Calls |-> <<>>]
  /\ started = 0
  /\ document = NoDocument
  /\ ui = NoUi
  /\ contract = Constructor("deployer")

\* chacha20Encrypt(key, nonce, plaintext) is called
Encrypt(i, key, nonce, plaintext) ==
  /\ call[i].pc = "idle"
  /\ call' = [call EXCEPT ![i] = Entered(key, nonce, plaintext, NULL)]
  /\ started' = started + 1
  /\ UNCHANGED <<blockBuf, document, ui, contract>>

\* chacha20Encrypt is called with the arguments invocation j was given
EncryptSame(i, j) ==
  /\ call[i].pc = "idle"
  /\ call[j].pc # "idle"
  /\ call' = [call EXCEPT ![i] =
       Entered(call[j].key, call[j].nonce, call[j].plaintext, NULL)]
  /\ started' = started + 1
  /\ UNCHANGED <<blockBuf, document, ui, contract>>

\* chacha20Decrypt, the same function, is called on the output of the finished
\* invocation j with j's key and nonce
Decrypt(i, j) ==
  /\ call[i].pc = "idle"
  /\ call[j].pc = "done"
  /\ call' = [call EXCEPT ![i] =
       Entered(call[j].key, call[j].nonce, call[j].out, call[j].plaintext)]
  /\ started' = started + 1
  /\ UNCHANGED <<blockBuf, document, ui, contract>>

\* const block = chacha20Block(key, counter++, nonce)
BlockStep(i) ==
  /\ call[i].pc = "loop"
  /\ LoopCondition(call[i].offset, call[i].plaintext)
  /\ blockBuf' = [blockBuf EXCEPT ![NewBlockBuffer(i)] =
       BlockOf(call[i].key, call[i].counter, call[i].nonce)]
  /\ call' = [call EXCEPT ![i] =
       [@ EXCEPT !.pc = "xor", !.block = NewBlockBuffer(i),
                 !.counter = NextCounter(@),
                 !.blocks = Append(@, [key |-> call[i].key, counter |-> call[i].counter,
                                       nonce |-> call[i].nonce])]]
  /\ UNCHANGED <<started, document, ui, contract>>

\* the inner loop over the block, then offset += 64
XorStep(i) ==
  /\ call[i].pc = "xor"
  /\ call' = [call EXCEPT ![i] =
       [@ EXCEPT !.pc = "loop",
                 !.out = XorInto(@, call[i].plaintext, blockBuf[call[i].block], call[i].offset),
                 !.offset = @ + BlockSize]]
  /\ UNCHANGED <<blockBuf, started, document, ui, contract>>

\* return out
Return(i) ==
  /\ call[i].pc = "loop"
  /\ ~LoopCondition(call[i].offset, call[i].plaintext)
  /\ call' = [call EXCEPT ![i] = [@ EXCEPT !.pc = "done"]]
  /\ UNCHANGED <<blockBuf, started, document, ui, contract>>

-----------------------------------------------------------------------------
(* The callers: AddEditDialog.handleSubmit, the contract's updateDocument  *)
(* and EditList.decryptCurrentDocument                                     *)

\* a string is the sequence of its UTF-16 code units; the texts of the model
\* hold no surrogates, so a code unit is a code point below 65536
\* the bytes of one code point
Utf8Of(c) ==
  IF c < 128 THEN <<c>>
  ELSE IF c < 2048 THEN <<192 + (c \div 64), 128 + (c % 64)>>
  ELSE <<224 + (c \div 4096), 128 + ((c \div 64) % 64), 128 + (c % 64)>>

\* the bytes of the code points, in order (the text is halved so that a long
\* one is not a deep recursion)
RECURSIVE utf8ToBytes(_)
utf8ToBytes(text) ==
  IF Len(text) = 0 THEN <<>>
  ELSE IF Len(text) = 1 THEN Utf8Of(text[1])
  ELSE utf8ToBytes(SubSeq(text, 1, Len(text) \div 2))
       \o utf8ToBytes(SubSeq(text, (Len(text) \div 2) + 1, Len(text)))

\* the replacement character a malformed sequence decodes to
ReplacementChar == 65533

IsContinuation(bytes, i) == i <= Len(bytes) /\ bytes[i] \in 128..191

RECURSIVE bytesToUtf8(_)
bytesToUtf8(bytes) ==
  IF bytes = <<>> THEN <<>>
  ELSE LET b == Head(bytes)
       IN  IF b < 128 THEN <<b>> \o bytesToUtf8(Tail(bytes))
           ELSE IF b \in 194..223 /\ IsContinuation(bytes, 2)
             THEN <<(b - 192) * 64 + (bytes[2] - 128)>>
                  \o bytesToUtf8(SubSeq(bytes, 3, Len(bytes)))
           ELSE IF b \in 224..239 /\ IsContinuation(bytes, 2) /\ IsContinuation(bytes, 3)
                   /\ (b - 224) * 4096 + (bytes[2] - 128) * 64 >= 2048
             THEN <<(b - 224) * 4096 + (bytes[2] - 128) * 64 + (bytes[3] - 128)>>
                  \o bytesToUtf8(SubSeq(bytes, 4, Len(bytes)))
           ELSE <<ReplacementChar>> \o bytesToUtf8(Tail(bytes))

\* bytesToHex / hexToBytes: "0x" and two hexadecimal digits a byte, most
\* significant first; a digit is its value 0..15
bytesToHex(bytes) ==
  [k \in 1..(2 * Len(bytes)) |->
     IF k % 2 = 1 THEN bytes[(k + 1) \div 2] \div 16 ELSE bytes[k \div 2] % 16]

hexToBytes(hex) ==
  [k \in 1..(Len(hex) \div 2) |-> 16 * hex[2 * k - 1] + hex[2 * k]]

concatBytes(a, b) == a \o b

\* array.slice(from, to) and array.slice(from)
Slice(bytes, from, to) == SubSeq(bytes, from + 1, Min(to, Len(bytes)))
SliceFrom(bytes, from) == SubSeq(bytes, from + 1, Len(bytes))

\* what decryptCurrentDocument takes from the stored content
NonceOf(encryptedContent) == Slice(encryptedContent, 0, 12)
CiphertextFromEleven(encryptedContent) == SliceFrom(encryptedContent, 11)
CiphertextOf(encryptedContent) == SliceFrom(encryptedContent, 12)

\* code units String.prototype.trim removes (those the texts of the model use)
WhiteSpace == {9, 10, 11, 12, 13, 32, 160}
IsBlank(text) == \A i \in 1..Len(text) : text[i] \in WhiteSpace

MinContentLength == 10
MaxContentLength == 10000

\* the checks handleSubmit makes before it encrypts: the error it sets, or "ok"
SubmitCheck(ready, content, canWrite) ==
  IF ~ready \/ IsBlank(content) THEN "Please fill in the content"
  ELSE IF Len(content) < MinContentLength THEN "Content must be at least 10 characters long"
  ELSE IF Len(content) > MaxContentLength THEN "Content must be less than 10,000 characters"
  ELSE IF ~canWrite THEN "You do not have permission to edit"
  ELSE "ok"

\* password addresses: generateRandomAddress gives lower-case digits; what
\* decrypting the stored password gives back may be the same address in
\* another case
Passwords == {"0x1a", "0x2b"}
toLowerCase(p) ==
  CASE p = "0x1A" -> "0x1a"
    [] p = "0x2B" -> "0x2b"
    [] OTHER -> p
Spellings(p) ==
  CASE p = "0x1a" -> {"0x1a", "0x1A"}
    [] p = "0x2b" -> {"0x2b", "0x2B"}
    [] OTHER -> {p}

\* keccak256 of a string, as its 32 bytes: a fixed digest for each string
keccak256(str) ==
  CASE str = "0x1a" -> KeyB
    [] str = "0x2b" -> KatKey
    [] OTHER -> Bytes(KeyLength, 3, 17)

deriveKeyFromPasswordAddress(passwordAddress) == keccak256(toLowerCase(passwordAddress))

\* the texts typed into the dialog: empty, blank, too short, of the least
\* length, with characters of two and three bytes, and one of MaxTextLen
\* characters, longer than a block
MaxTextLen == 70
Texts ==
  {<<>>, [i \in 1..12 |-> 32], [i \in 1..9 |-> 97], [i \in 1..MinContentLength |-> 97 + i],
   <<233, 20320>> \o [i \in 1..8 |-> 65 + i], [i \in 1..MaxTextLen |-> 64 + (i % 26)]}

MaxEncryptedLength == 10000

\* UpdateDocumentCheck with the first length requirement length >= 12
UpdateDocumentCheckAtLeast(authorized, encryptedContent) ==
  IF ~authorized THEN "Not authorized to edit"
  ELSE IF ~(Len(encryptedContent) >= NonceLength)
    THEN "Encrypted content must contain nonce and data"
  ELSE IF ~(Len(encryptedContent) <= MaxEncryptedLength) THEN "Encrypted content too large"
  ELSE "ok"

\* updateDocument's checks, the modifier first: the revert reason, or "ok"
UpdateDocumentCheck(authorized, encryptedContent) ==
  IF ~authorized THEN "Not authorized to edit"
  ELSE IF ~(Len(encryptedContent) > NonceLength)
    THEN "Encrypted content must contain nonce and data"
  ELSE IF ~(Len(encryptedContent) <= MaxEncryptedLength) THEN "Encrypted content too large"
  ELSE "ok"

\* handleSubmit up to the encryption's loop: the checks, the password, the
\* key, the nonce and the call of chacha20Encrypt on the text's bytes
HandleSubmit(i, ready, content, canWrite, passwordAddress, nonce) ==
  /\ call[i].pc = "idle"
  /\ IF SubmitCheck(ready, content, canWrite) = "ok"
       THEN /\ call' = [call EXCEPT ![i] =
                 [Entered(deriveKeyFromPasswordAddress(passwordAddress), nonce,
                          utf8ToBytes(content), NULL)
                    EXCEPT !.caller = "handleSubmit", !.password = passwordAddress]]
            /\ started' = started + 1
            /\ ui' = [ui EXCEPT !.error = "none"]
       ELSE /\ ui' = [ui EXCEPT !.error = SubmitCheck(ready, content, canWrite)]
            /\ UNCHANGED <<call, started>>
  /\ UNCHANGED <<blockBuf, document, contract>>

\* the rest of handleSubmit and the transaction it sends: the content
\* nonce || ciphertext goes to updateDocument as a hex string, and the
\* contract stores the bytes
UpdateDocument(i) ==
  /\ call[i].caller = "handleSubmit"
  /\ call[i].pc \in {"done", "failed"}
  /\ IF call[i].pc = "done"
       THEN LET encryptedContent == hexToBytes(bytesToHex(concatBytes(call[i].nonce, call[i].out)))
            IN  IF UpdateDocumentCheck(TRUE, encryptedContent) = "ok"
                  THEN /\ document' = [exists |-> TRUE, content |-> encryptedContent,
                                       password |-> call[i].password,
                                       plain |-> call[i].plaintext]
                       /\ ui' = ui
                  ELSE /\ ui' = [ui EXCEPT !.error = UpdateDocumentCheck(TRUE, encryptedContent)]
                       /\ document' = document
       ELSE /\ ui' = [ui EXCEPT !.error = call[i].error]
            /\ document' = document
  /\ call' = [call EXCEPT ![i] = [@ EXCEPT !.caller = "submitted"]]
  /\ UNCHANGED <<blockBuf, started, contract>>

\* decryptCurrentDocument up to the decryption's loop: it reads the content and
\* the password, splits the nonce off and calls chacha20Decrypt on the rest
DecryptCurrentDocument(i, ready, passwordAddress) ==
  /\ call[i].pc = "idle"
  /\ document.exists
  /\ passwordAddress \in Spellings(document.password)
  /\ IF ready
       THEN LET encryptedContent == hexToBytes(bytesToHex(document.content))
            IN  /\ call' = [call EXCEPT ![i] =
                     [Entered(deriveKeyFromPasswordAddress(passwordAddress),
                              NonceOf(encryptedContent), CiphertextOf(encryptedContent),
                              document.plain)
                        EXCEPT !.caller = "decryptCurrentDocument"]]
                /\ started' = started + 1
       ELSE UNCHANGED <<call, started>>
  /\ UNCHANGED <<blockBuf, document, ui, contract>>

\* the end of decryptCurrentDocument: the text is shown, or the error
ShowDocument(i) ==
  /\ call[i].caller = "decryptCurrentDocument"
  /\ call[i].pc \in {"done", "failed"}
  /\ ui' = IF call[i].pc = "done"
             THEN [ui EXCEPT !.fullDocument = bytesToUtf8(call[i].out)]
             ELSE [ui EXCEPT !.fullDocument = <<>>, !.decryptionError = call[i].error]
  /\ call' = [call EXCEPT ![i] = [@ EXCEPT !.caller = "shown"]]
  /\ UNCHANGED <<blockBuf, started, document, contract>>

-----------------------------------------------------------------------------
(* The FHECipherNotes contract                                             *)

\* the longest sequence of transactions of the model
MaxTransactions == 4

\* the contents sent to updateDocument, of the lengths around the two limits,
\* each with the password it was encrypted under
ContentLengths ==
  {0, NonceLength, NonceLength + 1, MaxEncryptedLength, MaxEncryptedLength + 1}
Submissions ==
  {<<Bytes(n, 3, 9), "0x1a">> : n \in ContentLengths}
    \cup {<<Bytes(NonceLength + 1, 5, 2), "0x2b">>}

\* the values sent to setPermission: every choice of canWrite and canDelete,
\* canRead with canWrite or alone
PermissionInputs ==
  {Permission(w, d, w) : w \in BOOLEAN, d \in BOOLEAN} \cup {Permission(FALSE, FALSE, TRUE)}

\* the accounts permissions are set for: the admin itself and alice; bob is
\* the account nobody grants anything
Grantees == {"deployer", "alice"}

\* setPermission as called: by the admin for a grantee, and by another
\* account that tries to grant itself everything
SetPermissionCalls ==
  {<<"deployer", u, p>> : u \in Grantees, p \in PermissionInputs}
    \cup {<<s, s, Permission(TRUE, TRUE, TRUE)>> : s \in Users \ {"deployer"}}

\* grantReadAccess and revokeReadAccess as called: by the admin for alice, and
\* by alice for herself
ReadAccessCalls == {<<"deployer", "alice">>, <<"alice", "alice">>}

\* modifier onlyAdmin
onlyAdmin(c, sender) == sender = c.admin

\* onlyAuthorized with canDelete read for canWrite
onlyAuthorizedByDelete(c, sender) == c.permissions[sender].canDelete \/ sender = c.admin

\* onlyAuthorized without the admin's exemption
onlyAuthorizedNoAdmin(c, sender) == c.permissions[sender].canWrite

\* modifier onlyAuthorized
onlyAuthorized(c, sender) == c.permissions[sender].canWrite \/ sender = c.admin

\* modifier onlyAuthorizedToDelete
onlyAuthorizedToDelete(c, sender) ==
  \/ sender = c.admin
  \/ (sender = c.currentDocument.editor /\ c.permissions[sender].canDelete)

\* setPermission's assignment with the flags the user already holds kept
SetPermissionKeepsGrants(c, user, permission) ==
  [c.permissions EXCEPT ![user] =
     Permission(@.canWrite \/ permission.canWrite, @.canDelete \/ permission.canDelete,
                permission.canRead)]

\* permissions[user] = Permission(canWrite, canDelete, canRead)
SetPermissionStore(c, user, permission) == [c.permissions EXCEPT ![user] = permission]

\* NewDocument with the editor of an existing document kept
NewDocumentKeepsEditor(c, sender, encryptedContent, password) ==
  [editor |-> IF c.currentDocument.exists THEN c.currentDocument.editor ELSE sender,
   encryptedContent |-> encryptedContent, encPassword |-> password,
   timestamp |-> c.now, exists |-> TRUE]

\* the DocumentEdit updateDocument stores: block.timestamp is the clock
NewDocument(c, sender, encryptedContent, password) ==
  [editor |-> sender, encryptedContent |-> encryptedContent, encPassword |-> password,
   timestamp |-> c.now, exists |-> TRUE]

\* clearDocument's checks, the modifier first: the revert reason, or "ok"
ClearDocumentCheck(c, sender) ==
  IF ~onlyAuthorizedToDelete(c, sender) THEN "Not authorized to delete"
  ELSE IF ~c.currentDocument.exists THEN "Document does not exist"
  ELSE "ok"

\* grantReadAccess's and revokeReadAccess's checks
ReadAccessCheck(c, sender) ==
  IF ~onlyAdmin(c, sender) THEN "Only admin"
  ELSE IF ~c.currentDocument.exists THEN "Document does not exist"
  ELSE "ok"

\* getAdmin returning the sender of the last transaction
getAdminLastSender(c) == c.last.sender

\* the views
getAdmin(c) == c.admin
canUserWrite(c, user) == c.permissions[user].canWrite \/ user = c.admin
canUserDelete(c, user) == c.permissions[user].canDelete \/ user = c.admin
canUserRead(c, user) == c.permissions[user].canRead \/ user = c.admin
getDocumentMeta(c) ==
  [editor |-> c.currentDocument.editor, timestamp |-> c.currentDocument.timestamp,
   exists |-> c.currentDocument.exists]
getDocumentContent(c) ==
  IF c.currentDocument.exists
    THEN [result |-> "ok", encryptedContent |-> c.currentDocument.encryptedContent]
    ELSE [result |-> "Document does not exist", encryptedContent |-> <<>>]
getDocumentPassword(c) ==
  IF c.currentDocument.exists
    THEN [result |-> "ok", encPassword |-> c.currentDocument.encPassword]
    ELSE [result |-> "Document does not exist", encPassword |-> ""]

\* a transaction is mined: the clock advances and, if it reverted, nothing of
\* the storage changes
Mined(c, storage, tx) ==
  IF tx.result = "ok"
    THEN [storage EXCEPT !.now = c.now + 1, !.last = tx]
    ELSE [c EXCEPT !.now = c.now + 1, !.last = tx]

engineVars == <<call, blockBuf, started, document, ui>>

SetPermission(sender, user, permission) ==
  /\ contract.now < MaxTransactions
  /\ contract' = Mined(contract,
       [contract EXCEPT
          !.permissions = SetPermissionStore(contract, user, permission),
          !.acl = IF permission.canRead /\ contract.currentDocument.exists
                    THEN @ \cup {user} ELSE @],
       Transaction("setPermission", sender, user, permission, <<>>,
                   IF onlyAdmin(contract, sender) THEN "ok" ELSE "Only admin"))
  /\ UNCHANGED engineVars

\* updateDocument(encryptedContent, encPwd, inputProof), encPwd and inputProof
\* a valid encrypted input for password
ContractUpdateDocument(sender, encryptedContent, password) ==
  /\ contract.now < MaxTransactions
  /\ contract' = Mined(contract,
       [contract EXCEPT
          !.currentDocument = NewDocument(contract, sender, encryptedContent, password),
          !.acl = {"this", sender, contract.admin}],
       Transaction("updateDocument", sender, ZeroAddress, NoPermission, encryptedContent,
                   UpdateDocumentCheck(onlyAuthorized(contract, sender), encryptedContent)))
  /\ UNCHANGED engineVars

ClearDocument(sender) ==
  /\ contract.now < MaxTransactions
  /\ contract' = Mined(contract,
       [contract EXCEPT !.currentDocument.exists = FALSE],
       Transaction("clearDocument", sender, ZeroAddress, NoPermission, <<>>,
                   ClearDocumentCheck(contract, sender)))
  /\ UNCHANGED engineVars

GrantReadAccess(sender, user) ==
  /\ contract.now < MaxTransactions
  /\ contract' = Mined(contract,
       [contract EXCEPT !.acl = @ \cup {user}, !.permissions[user].canRead = TRUE],
       Transaction("grantReadAccess", sender, user, NoPermission, <<>>,
                   ReadAccessCheck(contract, sender)))
  /\ UNCHANGED engineVars

RevokeReadAccess(sender, user) ==
  /\ contract.now < MaxTransactions
  /\ contract' = Mined(contract,
       [contract EXCEPT !.permissions[user].canRead = FALSE],
       Transaction("revokeReadAccess", sender, user, NoPermission, <<>>,
                   ReadAccessCheck(contract, sender)))
  /\ UNCHANGED engineVars

Next ==
  \/ \E i \in Calls : \E a \in Arguments(i) : Encrypt(i, a[1], a[2], a[3])
  \/ \E i \in Calls, j \in Calls : EncryptSame(i, j)
  \/ \E i \in Calls, j \in Calls : Decrypt(i, j)
  \/ \E i \in Calls : BlockStep(i)
  \/ \E i \in Calls : XorStep(i)
  \/ \E i \in Calls : Return(i)

Spec == Init /\ [][Next]_vars

\* the engine under the application's callers
NextUI ==
  \/ \E i \in Calls, ready \in BOOLEAN, content \in Texts, canWrite \in BOOLEAN,
        p \in Passwords, n \in ValidNonces : HandleSubmit(i, ready, content, canWrite, p, n)
  \/ \E i \in Calls : UpdateDocument(i)
  \/ \E i \in Calls, ready \in BOOLEAN, p \in {"0x1a", "0x1A", "0x2b", "0x2B"} :
        DecryptCurrentDocument(i, ready, p)
  \/ \E i \in Calls : ShowDocument(i)
  \/ \E i \in Calls : BlockStep(i)
  \/ \E i \in Calls : XorStep(i)
  \/ \E i \in Calls : Return(i)

SpecUI == Init /\ [][NextUI]_vars

\* the texts of the longest submissions: as many characters of one byte as
\* updateDocument takes bytes after the nonce, one more, and one more than the
\* dialog takes
LongTexts ==
  {[i \in 1..n |-> 97 + (i % 26)] :
     n \in {MaxEncryptedLength - NonceLength, MaxEncryptedLength - NonceLength + 1,
            MaxContentLength + 1}}

\* the dialog alone: one submission at a time, of a long text
NextSubmit ==
  \/ \E ready \in BOOLEAN, content \in LongTexts, canWrite \in BOOLEAN :
        HandleSubmit("A", ready, content, canWrite, "0x1a", NonceB)
  \/ BlockStep("A")
  \/ XorStep("A")
  \/ Return("A")
  \/ UpdateDocument("A")

SpecSubmit == Init /\ [][NextSubmit]_vars

\* the contract under transactions from every account
NextContract ==
  \/ \E a \in SetPermissionCalls : SetPermission(a[1], a[2], a[3])
  \/ \E sender \in Users, a \in Submissions : ContractUpdateDocument(sender, a[1], a[2])
  \/ \E sender \in Users : ClearDocument(sender)
  \/ \E a \in ReadAccessCalls : GrantReadAccess(a[1], a[2])
  \/ \E a \in ReadAccessCalls : RevokeReadAccess(a[1], a[2])

SpecContract == Init /\ [][NextContract]_vars

-----------------------------------------------------------------------------
(* Properties                                                              *)

ValidKey(key) == key # NULL /\ Len(key) = KeyLength
ValidNonce(nonce) == nonce # NULL /\ Len(nonce) = NonceLength
Finished(i) == call[i].pc \in {"done", "failed"}
Ceil64(n) == (n + BlockSize - 1) \div BlockSize

\* C1: round trip. A chacha20Decrypt call given the output of a finished
\* chacha20Encrypt call, with that call's key and nonce, returns that call's
\* plaintext byte for byte.
C1_RoundTrip ==
  \A i \in Calls :
    (call[i].caller = "none" /\ call[i].expect # NULL /\ Finished(i))
      => (call[i].pc = "done" /\ call[i].out = call[i].expect)

\* a decryption of more than one block has returned the plaintext
C1_Witness ==
  \E i \in Calls :
    /\ call[i].caller = "none" /\ call[i].expect # NULL /\ call[i].pc = "done"
    /\ Len(call[i].expect) > BlockSize
    /\ call[i].out = call[i].expect
    /\ call[i].plaintext # call[i].expect

\* C2: every block the engine computes is the block RFC 8439 defines for the
\* same key, counter and nonce; in particular the blocks computed under the
\* known-answer key (32 zero bytes but for a last byte 1) and the zero nonce.
C2_BlockIsRfc8439 ==
  \A i \in Calls :
    (call[i].pc = "xor" /\ call[i].key = KatKey /\ call[i].nonce = ZeroNonce)
      => blockBuf[call[i].block]
           = Rfc8439Block(call[i].key, call[i].blocks[Len(call[i].blocks)].counter,
                          call[i].nonce)

\* C3: a call whose key is missing or not 32 bytes long has failed with the
\* key-length error, whatever the nonce and the data, and has run no block
\* transform and made no output.
C3_KeyLengthError ==
  \A i \in Calls :
    (call[i].pc # "idle" /\ ~ValidKey(call[i].key))
      => /\ call[i].pc = "failed"
         /\ call[i].error = KeyError
         /\ call[i].blocks = <<>>
         /\ call[i].out = NULL

\* a call with a key one byte too long, a valid nonce and data has failed
C3_Witness ==
  \E i \in Calls :
    /\ call[i].pc = "failed" /\ call[i].error = KeyError
    /\ call[i].key # NULL /\ Len(call[i].key) = KeyLength + 1
    /\ ValidNonce(call[i].nonce)
    /\ call[i].plaintext # NULL /\ Len(call[i].plaintext) > 0

\* C4: a call with a valid key whose nonce is missing or not 12 bytes long has
\* failed with the nonce-length error, which is not the key-length error, and
\* has run no block transform.
C4_NonceLengthError ==
  \A i \in Calls :
    (call[i].pc # "idle" /\ ValidKey(call[i].key) /\ ~ValidNonce(call[i].nonce))
      => /\ call[i].pc = "failed"
         /\ call[i].error = NonceError
         /\ call[i].error # KeyError
         /\ call[i].blocks = <<>>
         /\ call[i].out = NULL

\* a call with a valid key and a nonce one byte too long has failed
C4_Witness ==
  \E i \in Calls :
    /\ call[i].pc = "failed" /\ call[i].error = NonceError
    /\ ValidKey(call[i].key)
    /\ call[i].nonce # NULL /\ Len(call[i].nonce) = NonceLength + 1
    /\ call[i].plaintext # NULL /\ Len(call[i].plaintext) > 0

\* C5: length preservation. The array a call returns is exactly as long as its
\* input.
C5_LengthPreserved ==
  \A i \in Calls :
    call[i].pc = "done" => Len(call[i].out) = Len(call[i].plaintext)

\* a call on an input that ends inside a block has returned
C5_Witness ==
  \E i \in Calls :
    /\ call[i].pc = "done"
    /\ Len(call[i].plaintext) % BlockSize # 0
    /\ Len(call[i].plaintext) > BlockSize
    /\ Len(call[i].out) = Len(call[i].plaintext)

\* C6: empty input. With a valid key and nonce a call on a zero-length input
\* has returned a zero-length array and has run no block transform.
C6_EmptyInput ==
  \A i \in Calls :
    (call[i].pc # "idle" /\ ValidKey(call[i].key) /\ ValidNonce(call[i].nonce)
       /\ call[i].plaintext = <<>>)
      => /\ call[i].pc = "done"
         /\ call[i].out = <<>>
         /\ call[i].blocks = <<>>

C6_Witness ==
  \E i \in Calls :
    /\ call[i].pc = "done" /\ call[i].plaintext = <<>> /\ call[i].out = <<>>
    /\ ValidKey(call[i].key) /\ ValidNonce(call[i].nonce)

\* C7: determinism. Two finished calls given the same key, nonce and data
\* ended the same way: the same output, or the same error.
C7_Determinism ==
  \A i, j \in Calls :
    (Finished(i) /\ Finished(j)
       /\ call[i].key = call[j].key /\ call[i].nonce = call[j].nonce
       /\ call[i].plaintext = call[j].plaintext)
      => /\ call[i].pc = call[j].pc
         /\ call[i].out = call[j].out
         /\ call[i].error = call[j].error

\* two calls on the same arguments, of more than a block, have both returned
C7_Witness ==
  /\ call["A"].pc = "done" /\ call["B"].pc = "done"
  /\ call["A"].key = call["B"].key /\ call["A"].nonce = call["B"].nonce
  /\ call["A"].plaintext = call["B"].plaintext
  /\ Len(call["A"].plaintext) > BlockSize
  /\ call["A"].out = call["B"].out

\* C8: block count and counters. The block transforms a call has run so far are
\* those of counters 1, 2, ... in order, each with the call's key and nonce;
\* a call that returned on an input of length L > 0 has run exactly
\* ceil(L / 64) of them, so two for a 100-byte input.
C8_BlockCounters ==
  \A i \in Calls :
    /\ \A j \in 1..Len(call[i].blocks) :
         call[i].blocks[j] = [key |-> call[i].key, counter |-> j, nonce |-> call[i].nonce]
    /\ (call[i].pc = "done" /\ call[i].plaintext # <<>>)
         => Len(call[i].blocks) = Ceil64(Len(call[i].plaintext))
    /\ (call[i].pc = "done" /\ Len(call[i].plaintext) = 100)
         => Len(call[i].blocks) = 2

\* a call on a 100-byte input has returned after the counters 1 and 2
C8_Witness ==
  \E i \in Calls :
    /\ call[i].pc = "done" /\ Len(call[i].plaintext) = 100
    /\ Len(call[i].blocks) = 2
    /\ call[i].blocks[1].counter = 1 /\ call[i].blocks[2].counter = 2

\* C9: wire format. The stored content is 12 bytes longer than the plaintext
\* it was built from, its first 12 bytes are a nonce and the rest is as long as
\* the plaintext; decryptCurrentDocument, which splits the first 12 bytes off
\* and decrypts the rest under the key derived from the password, never fails
\* and returns the plaintext the stored content was built from.
C9_WireFormat ==
  /\ document.exists =>
       /\ Len(document.content) = NonceLength + Len(document.plain)
       /\ NonceOf(document.content) \in ValidNonces
       /\ Len(CiphertextOf(document.content)) = Len(document.plain)
  /\ \A i \in Calls :
       call[i].caller = "decryptCurrentDocument" =>
         /\ call[i].pc # "failed"
         /\ call[i].pc = "done" => call[i].out = call[i].expect

\* a stored text of more than a block, with characters of several bytes, has
\* been decrypted back
C9_Witness ==
  \E i \in Calls :
    /\ call[i].caller = "decryptCurrentDocument" /\ call[i].pc = "done"
    /\ document.exists
    /\ call[i].expect = document.plain
    /\ call[i].out = document.plain
    /\ Len(document.plain) > BlockSize
    /\ Len(document.content) = NonceLength + Len(document.plain)

\* C10: reentrancy. However the steps of the two invocations interleave, each
\* ends as chacha20Encrypt run alone on its arguments ends, and two
\* invocations that each hold a keystream block hold different arrays.
C10_Reentrant ==
  /\ \A i \in Calls :
       Finished(i) =>
         /\ call[i].out = chacha20Encrypt(call[i].key, call[i].nonce, call[i].plaintext).out
         /\ call[i].error = chacha20Encrypt(call[i].key, call[i].nonce, call[i].plaintext).error
  /\ \A i, j \in Calls :
       (i # j /\ call[i].pc = "xor" /\ call[j].pc = "xor") => call[i].block # call[j].block

\* both invocations hold a keystream block at once, for different arguments
C10_Interleaved ==
  /\ call["A"].pc = "xor" /\ call["B"].pc = "xor"
  /\ call["A"].key # call["B"].key
  /\ call["A"].offset > 0

\* two invocations that interleaved have both returned what each returns alone
C10_Witness ==
  /\ call["A"].pc = "done" /\ call["B"].pc = "done"
  /\ call["A"].key # call["B"].key
  /\ Len(call["A"].plaintext) > BlockSize /\ Len(call["B"].plaintext) > BlockSize
  /\ call["A"].out = chacha20Encrypt(call["A"].key, call["A"].nonce, call["A"].plaintext).out
  /\ call["B"].out = chacha20Encrypt(call["B"].key, call["B"].nonce, call["B"].plaintext).out

\* what the contract stores
Storage(c) ==
  [admin |-> c.admin, permissions |-> c.permissions,
   currentDocument |-> c.currentDocument, acl |-> c.acl]

\* the step is a transaction of function fn
Sent(fn) == contract'.now # contract.now /\ contract'.last.fn = fn

\* C11: whenever a document exists, clearDocument sent by the admin or by an
\* account for which canUserDelete is true succeeds, whoever edited the
\* document last, and afterwards getDocumentMeta().exists is false.
C11_DeleteHolderClears ==
  [][(/\ Sent("clearDocument")
      /\ contract.currentDocument.exists
      /\ canUserDelete(contract, contract'.last.sender))
       => (/\ contract'.last.result = "ok"
           /\ ~getDocumentMeta(contract').exists)]_vars

\* C12: updateDocument sent by an account that is not the admin and does not
\* hold canWrite reverts with "Not authorized to edit" and leaves the stored
\* document as it was, in every reachable state.
C12_UnauthorizedUpdateReverts ==
  [][(/\ Sent("updateDocument")
      /\ contract'.last.sender # contract.admin
      /\ ~contract.permissions[contract'.last.sender].canWrite)
       => (/\ contract'.last.result = "Not authorized to edit"
           /\ contract'.currentDocument = contract.currentDocument)]_vars

\* alice, whose write permission was granted and later revoked (the document
\* stored is hers), has sent an acceptable content and was refused
C12_Witness ==
  /\ contract.last.fn = "updateDocument"
  /\ contract.last.sender = "alice"
  /\ contract.last.result = "Not authorized to edit"
  /\ Len(contract.last.content) = 13
  /\ ~contract.permissions["alice"].canWrite
  /\ contract.currentDocument.exists
  /\ contract.currentDocument.editor = "alice"
  /\ contract.currentDocument.encryptedContent # contract.last.content

\* C13: after a successful updateDocument by s with content c, getDocumentMeta
\* returns editor = s and exists = true and getDocumentContent returns c,
\* whatever updates and clears came before.
C13_UpdateOverwrites ==
  (contract.last.fn = "updateDocument" /\ contract.last.result = "ok")
    => /\ getDocumentMeta(contract).exists
       /\ getDocumentMeta(contract).editor = contract.last.sender
       /\ getDocumentContent(contract).result = "ok"
       /\ getDocumentContent(contract).encryptedContent = contract.last.content

\* alice has overwritten, as the third transaction or later, with her own
\* content
C13_Witness ==
  /\ contract.last.fn = "updateDocument"
  /\ contract.last.result = "ok"
  /\ contract.last.sender = "alice"
  /\ contract.now >= 3
  /\ contract.currentDocument.editor = "alice"
  /\ contract.currentDocument.encryptedContent = Bytes(13, 5, 2)
  /\ contract.currentDocument.timestamp = contract.now - 1

\* C14: admin override.  Whatever setPermission calls were made, canUserWrite
\* and canUserDelete are true of the admin, an updateDocument of the admin is
\* never refused for authorization, and a clearDocument of the admin is never
\* refused for authorization: it clears the document if there is one.
C14_AdminOverride ==
  /\ canUserWrite(contract, getAdmin(contract))
  /\ canUserDelete(contract, getAdmin(contract))
  /\ (contract.last.fn = "updateDocument" /\ contract.last.sender = contract.admin)
       => contract.last.result # "Not authorized to edit"
  /\ (contract.last.fn = "clearDocument" /\ contract.last.sender = contract.admin)
       => /\ contract.last.result \in {"ok", "Document does not exist"}
          /\ ~getDocumentMeta(contract).exists

\* the admin, whose own canWrite and canDelete were set to false, has cleared
\* a document alice wrote
C14_Witness ==
  /\ contract.last.fn = "clearDocument"
  /\ contract.last.sender = contract.admin
  /\ contract.last.result = "ok"
  /\ ~contract.permissions[contract.admin].canWrite
  /\ ~contract.permissions[contract.admin].canDelete
  /\ contract.currentDocument.editor = "alice"
  /\ ~contract.currentDocument.exists

\* C15: only the admin changes permissions.  setPermission from another
\* account reverts with "Only admin" and changes no permission; from the admin
\* it sets the user's canWrite and canDelete to the values given and changes
\* nobody else's; canWrite and canDelete change in no other way, so an account
\* never given a permission has canUserWrite = canUserDelete = false.
C15_OnlyAdminSetsPermissions ==
  [][/\ (Sent("setPermission") /\ contract'.last.sender # contract.admin)
          => /\ contract'.last.result = "Only admin"
             /\ contract'.permissions = contract.permissions
     /\ (Sent("setPermission") /\ contract'.last.sender = contract.admin)
          => /\ contract'.last.result = "ok"
             /\ contract'.permissions[contract'.last.user].canWrite
                  = contract'.last.permission.canWrite
             /\ contract'.permissions[contract'.last.user].canDelete
                  = contract'.last.permission.canDelete
             /\ \A u \in Users \ {contract'.last.user} :
                  contract'.permissions[u] = contract.permissions[u]
     /\ \A u \in Users :
          (\/ contract'.permissions[u].canWrite # contract.permissions[u].canWrite
           \/ contract'.permissions[u].canDelete # contract.permissions[u].canDelete)
            => /\ Sent("setPermission")
               /\ contract'.last.sender = contract.admin
               /\ contract'.last.user = u
     /\ \A u \in Users \ Grantees :
          ~canUserWrite(contract', u) /\ ~canUserDelete(contract', u)]_vars

\* the admin has taken back from alice the write permission she used
C15_Witness ==
  /\ contract.last.fn = "setPermission"
  /\ contract.last.sender = contract.admin
  /\ contract.last.user = "alice"
  /\ contract.last.result = "ok"
  /\ ~contract.last.permission.canWrite
  /\ contract.last.permission.canDelete
  /\ ~canUserWrite(contract, "alice")
  /\ canUserDelete(contract, "alice")
  /\ contract.currentDocument.editor = "alice"

\* C16: updateDocument from an authorized caller reverts with "Encrypted
\* content must contain nonce and data" for a content of at most 12 bytes and
\* with "Encrypted content too large" for one of more than 10000 bytes, the
\* stored document staying as it was; a content of 13 to 10000 bytes is
\* accepted.
C16_ContentLength ==
  [][(Sent("updateDocument") /\ canUserWrite(contract, contract'.last.sender))
       => /\ Len(contract'.last.content) <= 12
               => /\ contract'.last.result = "Encrypted content must contain nonce and data"
                  /\ contract'.currentDocument = contract.currentDocument
          /\ Len(contract'.last.content) > 10000
               => /\ contract'.last.result = "Encrypted content too large"
                  /\ contract'.currentDocument = contract.currentDocument
          /\ Len(contract'.last.content) \in 13..10000
               => contract'.last.result = "ok"]_vars

\* alice, authorized, was refused a content of 10001 bytes while the document
\* stored has 10000
C16_Witness ==
  /\ contract.last.fn = "updateDocument"
  /\ contract.last.sender = "alice"
  /\ contract.last.result = "Encrypted content too large"
  /\ Len(contract.last.content) = 10001
  /\ canUserWrite(contract, "alice")
  /\ contract.currentDocument.exists
  /\ Len(contract.currentDocument.encryptedContent) = 10000

\* C17: clearDocument sent while no document exists, by the admin or by
\* another account that holds delete permission, reverts with "Document does
\* not exist" and changes nothing the contract stores.
C17_ClearWithoutDocument ==
  [][(/\ Sent("clearDocument")
      /\ ~contract.currentDocument.exists
      /\ canUserDelete(contract, contract'.last.sender))
       => (/\ contract'.last.result = "Document does not exist"
           /\ Storage(contract') = Storage(contract))]_vars

\* the counter of the block invocation i holds
CounterUsed(i) == call[i].blocks[Len(call[i].blocks)].counter

\* the state matrix of the block invocation i holds
StateUsed(i) == InitialState(call[i].key, CounterUsed(i), call[i].nonce)

\* the index sets quarterRound is called on
QuarterRoundIndices ==
  {<<0, 4, 8, 12>>, <<1, 5, 9, 13>>, <<2, 6, 10, 14>>, <<3, 7, 11, 15>>,
   <<0, 5, 10, 15>>, <<1, 6, 11, 12>>, <<2, 7, 8, 13>>, <<3, 4, 9, 14>>}

\* C18: quarter round.  On the state matrix of every block computed, and on
\* each index set (a, b, c, d), quarterRound does a += b; d ^= a; d <<<= 16;
\* c += d; b ^= c; b <<<= 12; a += b; d ^= a; d <<<= 8; c += d; b ^= c;
\* b <<<= 7, modulo 2^32.
C18_QuarterRoundIsRfc ==
  \A i \in Calls :
    call[i].pc = "xor" =>
      \A q \in QuarterRoundIndices :
        quarterRound(StateUsed(i), q[1], q[2], q[3], q[4])
          = RfcQuarterRound(StateUsed(i), q[1], q[2], q[3], q[4])

\* C19: words 0 to 3 of the state matrix of every block computed are
\* 0x61707865, 0x3320646e, 0x79622d32, 0x6b206574.
C19_StateConstants ==
  \A i \in Calls :
    call[i].pc = "xor" =>
      /\ StateUsed(i)[0] = WordBE(97, 112, 120, 101)
      /\ StateUsed(i)[1] = WordBE(51, 32, 100, 110)
      /\ StateUsed(i)[2] = WordBE(121, 98, 45, 50)
      /\ StateUsed(i)[3] = WordBE(107, 32, 101, 116)

\* C20: in the state matrix of every block computed, word 4 + j (j = 0..7) is
\* the little-endian word of key bytes 4j..4j+3, word 12 is the block counter,
\* and words 13, 14, 15 are the little-endian words of nonce bytes 0..3, 4..7,
\* 8..11.
C20_StateLayout ==
  \A i \in Calls :
    call[i].pc = "xor" =>
      /\ \A j \in 0..7 : StateUsed(i)[4 + j] = GetUint32LE(call[i].key, 4 * j)
      /\ StateUsed(i)[12] = Word(CounterUsed(i))
      /\ \A j \in 0..2 : StateUsed(i)[13 + j] = GetUint32LE(call[i].nonce, 4 * j)

\* the quarter rounds of one double round in the order columns 0, 1, 2, 3 then
\* diagonals 0, 1, 2, 3
DoubleRoundInOrder(x) ==
  quarterRound(quarterRound(quarterRound(quarterRound(
    quarterRound(quarterRound(quarterRound(quarterRound(x,
      0, 4, 8, 12),
      1, 5, 9, 13),
      2, 6, 10, 14),
      3, 7, 11, 15),
      0, 5, 10, 15),
      1, 6, 11, 12),
      2, 7, 8, 13),
      3, 4, 9, 14)

\* n double rounds in that order
RECURSIVE RoundsInOrder(_, _, _)
RoundsInOrder(x, i, n) ==
  IF i < n /\ x = x THEN RoundsInOrder(DoubleRoundInOrder(x), i + 1, n) ELSE x

\* the keys, nonces and counters of the blocks the model computes
BlockInputs == ValidKeys \X ValidNonces \X (1..MaxBlocks)

\* the working array after the round loop, for each of them
Working ==
  LET t == [a \in BlockInputs |-> Rounds(InitialState(a[1], a[3], a[2]), 0)]
  IN  IF t = t THEN t ELSE t

\* C21: round structure.  For every block computed, the round loop leaves the
\* working array RfcDoubleRounds = 10 double rounds leave: 80 quarter-round
\* calls, each double round the four columns then the four diagonals.
C21_TenDoubleRounds ==
  \A i \in Calls :
    call[i].pc = "xor" =>
      Rounds(StateUsed(i), 0) = RoundsInOrder(StateUsed(i), 0, RfcDoubleRounds)

\* C22: feed-forward and serialization.  Bytes 4w..4w+3 of every block
\* computed are the little-endian bytes of (word w of the working array after
\* the rounds + word w of the state matrix before them) mod 2^32.
C22_FeedForward ==
  \A i \in Calls :
    call[i].pc = "xor" =>
      /\ Len(blockBuf[call[i].block]) = 64
      /\ \A w \in 0..15 : \A b \in 0..3 :
           blockBuf[call[i].block][4 * w + b + 1]
             = WAdd(Working[<<call[i].key, call[i].nonce, CounterUsed(i)>>][w],
                    StateUsed(i)[w])[b + 1]

\* a second block is held, whose state matrix the rounds have changed
C22_Witness ==
  \E i \in Calls :
    /\ call[i].pc = "xor"
    /\ CounterUsed(i) = 2
    /\ Working[<<call[i].key, call[i].nonce, 2>>] # StateUsed(i)
    /\ blockBuf[call[i].block][1]
         = WAdd(Working[<<call[i].key, call[i].nonce, 2>>][0], StateUsed(i)[0])[1]

\* C23: keystream application.  Byte i of the output of a call that returned
\* is byte i of the data XOR byte i mod 64 of the block of counter
\* 1 + i div 64, for every i below the length of the data, the bytes of a last
\* partial block included, and the output has no other byte.
C23_KeystreamApplication ==
  \A i \in Calls :
    call[i].pc = "done" =>
      /\ DOMAIN call[i].out = DOMAIN call[i].plaintext
      /\ \A k \in 0..(Len(call[i].plaintext) - 1) :
           call[i].out[k + 1]
             = XorBits(call[i].plaintext[k + 1],
                       Keystream[call[i].key, call[i].nonce, 1 + (k \div 64)][(k % 64) + 1],
                       8)

\* a call on 100 bytes has returned: the bytes at 63, 64 and 99 are in
C23_Witness ==
  \E i \in Calls :
    /\ call[i].pc = "done"
    /\ Len(call[i].plaintext) = 100
    /\ Len(call[i].blocks) = 2
    /\ call[i].out[100]
         = XorBits(call[i].plaintext[100], Keystream[call[i].key, call[i].nonce, 2][36], 8)
    /\ call[i].out[100] # call[i].plaintext[100]

\* C24: keystream reuse.  Two calls given the same valid key and nonce and any
\* two data both return, and at every index below both lengths the XOR of the
\* two outputs is the XOR of the two data.
C24_KeystreamReuse ==
  \A i, j \in Calls :
    (/\ Finished(i) /\ Finished(j)
     /\ ValidKey(call[i].key) /\ ValidNonce(call[i].nonce)
     /\ call[i].key = call[j].key /\ call[i].nonce = call[j].nonce
     /\ call[i].plaintext # NULL /\ call[j].plaintext # NULL)
      => /\ call[i].pc = "done" /\ call[j].pc = "done"
         /\ call[i].error = "none" /\ call[j].error = "none"
         /\ \A k \in DOMAIN call[i].plaintext \cap DOMAIN call[j].plaintext :
              XorBits(call[i].out[k], call[j].out[k], 8)
                = XorBits(call[i].plaintext[k], call[j].plaintext[k], 8)

\* two calls under one key and nonce on different data of more than a block
\* have returned
C24_Witness ==
  /\ call["A"].pc = "done" /\ call["B"].pc = "done"
  /\ call["A"].key = call["B"].key /\ call["A"].nonce = call["B"].nonce
  /\ Len(call["A"].plaintext) > BlockSize /\ Len(call["B"].plaintext) > BlockSize
  /\ \E k \in DOMAIN call["A"].plaintext \cap DOMAIN call["B"].plaintext :
       /\ k > BlockSize
       /\ call["A"].plaintext[k] # call["B"].plaintext[k]
       /\ XorBits(call["A"].out[k], call["B"].out[k], 8)
            = XorBits(call["A"].plaintext[k], call["B"].plaintext[k], 8)

\* C25: no mutation and fresh state.  A step of the program leaves the key,
\* the nonce and the data of every invocation under way as they were given,
\* and the array a finished invocation returned as it was returned; and every
\* block held is the block of its own (key, counter, nonce), whatever blocks
\* were computed before it.
C25_NoMutationFreshState ==
  [][\A i \in Calls :
       /\ call[i].pc # "idle" =>
            /\ call'[i].key = call[i].key
            /\ call'[i].nonce = call[i].nonce
            /\ call'[i].plaintext = call[i].plaintext
       /\ call[i].pc = "done" => call'[i].out = call[i].out
       /\ call'[i].pc = "xor" =>
            blockBuf'[call'[i].block]
              = Keystream[call'[i].key, call'[i].nonce,
                          call'[i].blocks[Len(call'[i].blocks)].counter]]_vars

\* an invocation holds its third block, after two others, and its arguments
\* are the ones it was given
C25_Witness ==
  \E i \in Calls :
    /\ call[i].pc = "xor"
    /\ Len(call[i].blocks) = 3
    /\ CounterUsed(i) = 3
    /\ blockBuf[call[i].block] = Keystream[call[i].key, call[i].nonce, 3]
    /\ blockBuf[call[i].block] # Keystream[call[i].key, call[i].nonce, 1]
    /\ call[i].blocks[1].key = call[i].key
    /\ Len(call[i].plaintext) = MaxLen

\* the width the counter word is reduced to
ReducedCounterBits == 1

\* counter >>> 0 with the word that many bits wide
CounterWordReduced(counter) == counter % Pow2(ReducedCounterBits)

\* C26: counter does not wrap.  With the counter word ReducedCounterBits wide,
\* the counter words of the successive blocks of one call are strictly
\* increasing, so pairwise distinct, and none is a counter that has wrapped.
C26_CounterDoesNotWrap ==
  \A i \in Calls :
    \A a, b \in DOMAIN call[i].blocks :
      a < b =>
        /\ CounterWordReduced(call[i].blocks[a].counter)
             < CounterWordReduced(call[i].blocks[b].counter)
        /\ call[i].blocks[b].counter < Pow2(ReducedCounterBits)

\* C27: validation order.  A call that ended was checked for its key, then
\* its nonce, then the presence of its data, and only then for empty data: a
\* wrong key gives the key-length error whatever the nonce and the data are, a
\* wrong nonce under a right key the nonce-length error, even on empty data.
C27_ValidationOrder ==
  \A i \in Calls :
    Finished(i) =>
      /\ ~ValidKey(call[i].key)
           => call[i].pc = "failed" /\ call[i].error = KeyError
      /\ (ValidKey(call[i].key) /\ ~ValidNonce(call[i].nonce))
           => call[i].pc = "failed" /\ call[i].error = NonceError
      /\ (ValidKey(call[i].key) /\ ValidNonce(call[i].nonce) /\ call[i].plaintext = NULL)
           => call[i].pc = "failed" /\ call[i].error = PlaintextError
      /\ (ValidKey(call[i].key) /\ ValidNonce(call[i].nonce) /\ call[i].plaintext # NULL)
           => call[i].pc = "done" /\ call[i].error = "none"

\* a call with a wrong key, a wrong nonce and empty data has failed with the
\* key-length error
C27_Witness ==
  \E i \in Calls :
    /\ call[i].pc = "failed"
    /\ call[i].error = KeyError
    /\ ~ValidKey(call[i].key) /\ ~ValidNonce(call[i].nonce)
    /\ call[i].plaintext = <<>>
    /\ call[i].out = NULL

\* the words a quarterRound call on q is given, and the state with every
\* other word zero
IndexSet(q) == {q[1], q[2], q[3], q[4]}
OnlyWords(s, q) == [w \in 0..15 |-> IF w \in IndexSet(q) THEN s[w] ELSE <<0, 0, 0, 0>>]

\* quarterRound on q writes no word but its four, and what it writes depends
\* on no word but its four
OwnWordsOnly(s, q) ==
  /\ \A w \in (0..15) \ IndexSet(q) :
       quarterRound(s, q[1], q[2], q[3], q[4])[w] = s[w]
  /\ \A w \in IndexSet(q) :
       quarterRound(s, q[1], q[2], q[3], q[4])[w]
         = quarterRound(OnlyWords(s, q), q[1], q[2], q[3], q[4])[w]

Columns == {<<0, 4, 8, 12>>, <<1, 5, 9, 13>>, <<2, 6, 10, 14>>, <<3, 7, 11, 15>>}
Diagonals == {<<0, 5, 10, 15>>, <<1, 6, 11, 12>>, <<2, 7, 8, 13>>, <<3, 4, 9, 14>>}

\* for each block the model computes: the block the round loop gives with the
\* quarter rounds of each iteration in the order 0, 1, 2, 3
BlockInOrder ==
  LET t == [a \in BlockInputs |->
              Serialize(RoundsInOrder(InitialState(a[1], a[3], a[2]), 0, RoundIterations),
                        InitialState(a[1], a[3], a[2]))]
  IN  IF t = t THEN t ELSE t

\* for each of them: every quarterRound call keeps to its own words
KeepsToOwnWords ==
  LET t == [a \in BlockInputs |->
              \A q \in Columns \cup Diagonals :
                /\ OwnWordsOnly(InitialState(a[1], a[3], a[2]), q)
                /\ OwnWordsOnly(Working[a], q)]
  IN  IF t = t THEN t ELSE t

\* C28: quarter-round calls commute within a round.  The four column index
\* sets are pairwise disjoint, and so are the four diagonal ones; every
\* quarterRound call reads and writes only its own four words; and every block
\* computed is the block the order 0, 1, 2, 3 inside each round gives.
C28_OrderWithinRound ==
  /\ \A p, q \in Columns : p # q => IndexSet(p) \cap IndexSet(q) = {}
  /\ \A p, q \in Diagonals : p # q => IndexSet(p) \cap IndexSet(q) = {}
  /\ \A i \in Calls :
       call[i].pc = "xor" =>
         /\ KeepsToOwnWords[<<call[i].key, call[i].nonce, CounterUsed(i)>>]
         /\ blockBuf[call[i].block]
              = BlockInOrder[<<call[i].key, call[i].nonce, CounterUsed(i)>>]

\* a block is held that the rounds made: it is not the doubled state matrix
C28_Witness ==
  \E i \in Calls :
    /\ call[i].pc = "xor"
    /\ CounterUsed(i) = 2
    /\ blockBuf[call[i].block] = BlockInOrder[<<call[i].key, call[i].nonce, 2>>]
    /\ blockBuf[call[i].block] # Serialize(StateUsed(i), StateUsed(i))

\* C29: a submission the dialog takes is never too large.  When handleSubmit
\* has accepted a content and called chacha20Encrypt on it, the nonce and the
\* array the ciphertext is written to are together more than 12 and at most
\* 10000 bytes long, and updateDocument does not refuse the content for its
\* size.
C29_AcceptedContentFits ==
  /\ \A i \in Calls :
       (/\ call[i].caller \in {"handleSubmit", "submitted"}
        /\ call[i].pc \in {"loop", "xor", "done"}) =>
         /\ Len(call[i].plaintext) >= MinContentLength
         /\ Len(concatBytes(call[i].nonce, call[i].out)) > NonceLength
         /\ Len(concatBytes(call[i].nonce, call[i].out)) <= MaxEncryptedLength
  /\ ui.error \notin {"Encrypted content too large",
                      "Encrypted content must contain nonce and data"}

\* C30: the admin is fixed at deployment.  Whatever transactions were sent, by
\* whatever callers, getAdmin() returns the deployer's address.
C30_AdminFixed ==
  /\ getAdmin(contract) = "deployer"
  /\ contract.admin = Constructor("deployer").admin

\* alice, given every permission by the admin, has written a document and
\* cleared it: the admin is still the deployer
C30_Witness ==
  /\ contract.last.fn = "clearDocument"
  /\ contract.last.sender = "alice"
  /\ contract.last.result = "ok"
  /\ contract.permissions["alice"] = Permission(TRUE, TRUE, TRUE)
  /\ contract.now >= 3
  /\ getAdmin(contract) = "deployer"
====
